---- MODULE Spec2Model ----
(***************************************************************************)
(* Model of qf_lib.backtesting.portfolio.backtest_position.BacktestPosition *)
(* a per-contract ledger driven by transact_transaction() and               *)
(* update_price(), with the valuation queries as operators over its state.  *)
(*                                                                          *)
(* Every precondition of the class is a Python `assert`.  The error kinds   *)
(* of the specification name the assertion that fires:                      *)
(*   InvalidStateError        _check_if_open                     (line 151) *)
(*   DirectionViolationError  _check_if_direction_does_not_change (161)     *)
(*   ContractMismatchError    assert transaction.contract == ...  (48)      *)
(*   InvalidTransactionError  assert quantity != 0 / price > 0.0  (49, 50)  *)
(* Quantities, prices and commissions are modelled as integers.  The caller  *)
(* is any sequence of calls with arguments from the sets below; a call that *)
(* fails an assertion is a step that records the error and nothing else.    *)
(*                                                                          *)
(* The module also models the calculation calls of                          *)
(* qf_lib.common.utils.volatility.volatility_forecast.VolatilityForecast    *)
(* (specification SpecVol).  The two objects are independent: each          *)
(* specification drives one of them and leaves the other as constructed.    *)
(***************************************************************************)
EXTENDS Integers, Sequences, FiniteSets, TLC

\* ---------------------------------------------------------------- bounds
\* longest transaction log explored
MaxTxns == 3
\* largest absolute quantity of a transaction
MaxQty == 2
\* the positive transaction price
MaxPrice == 2
\* absolute value of a non-zero commission
MaxComm == 3
\* largest bid / ask quote
MaxQuote == 2

\* largest forecast value the fitted model gives
MaxVol == 2
\* longest forecast series left after dropna()
MaxSeriesLen == 2
\* largest window_len argument
MaxWindow == 2
\* largest multiplier argument
MaxMultiplier == 2

\* the contract the position is constructed with, and a different one
PositionContract == "A"
OtherContract == "B"

Contracts == {PositionContract, OtherContract}
\* a single share or a block of MaxQty shares, bought or sold; 0 is the
\* quantity the quantity assertion rejects
Quantities == {-MaxQty, -1, 0, 1, MaxQty}
\* 0 stands for the non-positive prices the price assertion rejects
Prices == {0, MaxPrice}
\* no commission, or a commission of MaxComm of either sign
Commissions == {-MaxComm, 0, MaxComm}
Quotes == {1, MaxQuote}

\* Transaction values the caller may pass
Transactions == [contract : Contracts, quantity : Quantities,
                 price : Prices, commission : Commissions]

\* values the fitted model may forecast
Vols == 1..MaxVol
\* an optional argument or attribute: <<>> is None, <<x>> is the value x
None == <<>>
Some(x) == <<x>>
WindowArgs == {None} \cup {Some(w) : w \in 1..MaxWindow}
\* 0 is a multiplier the assertion rejects
Multipliers == 0..MaxMultiplier
\* forecasts after dropna(): series of at most MaxSeriesLen values
VolSeries == UNION {[1..n -> Vols] : n \in 0..MaxSeriesLen}

VARIABLES
    is_closed,          \* self.is_closed
    transactions,       \* self.transactions
    number_of_shares,   \* self.number_of_shares
    current_price,      \* self.current_price
    direction,          \* self.direction
    lastOp,             \* the last call made: "none", "transact", "update_price"
    lastError,          \* "none" or the kind of the assertion that failed
    lastReturn,         \* value returned by the last accepted transact call
    sumReturned,        \* sum of the values returned by all accepted calls
    annualise,          \* VolatilityForecast.annualise
    frequency,          \* VolatilityForecast.frequency: None or Some("DAILY")
    window_len,         \* VolatilityForecast.window_len
    forecasted_volatility, \* VolatilityForecast.forecasted_volatility
    rolledWith,         \* set of the window lengths passed to rolling_window
    volOp,              \* the last calculation call made, "none" before any
    volArgs,            \* its arguments, as a record
    volError,           \* "none" or what made the last call fail
    volReturn           \* value returned by the last call, None if it failed

positionVars == <<is_closed, transactions, number_of_shares, current_price, direction,
                  lastOp, lastError, lastReturn, sumReturned>>
forecastVars == <<annualise, frequency, window_len, forecasted_volatility, rolledWith,
                  volOp, volArgs, volError, volReturn>>

ledger == <<is_closed, transactions, number_of_shares, current_price, direction>>
vars == <<is_closed, transactions, number_of_shares, current_price, direction,
          lastOp, lastError, lastReturn, sumReturned,
          annualise, frequency, window_len, forecasted_volatility, rolledWith,
          volOp, volArgs, volError, volReturn>>

\* ---------------------------------------------------------------- helpers
\* numpy.sign on a number
sign(x) == IF x > 0 THEN 1 ELSE IF x < 0 THEN -1 ELSE 0

\* builtin abs
abs(x) == IF x < 0 THEN -x ELSE x

\* Exact fractions <<numerator, denominator>>, denominator > 0, stand for the
\* results of Python's true division and of the arithmetic done on them.
Rat(n, d) == IF d < 0 THEN <<-n, -d>> ELSE <<n, d>>
RatInt(n) == <<n, 1>>
RatAdd(a, b) == <<a[1] * b[2] + b[1] * a[2], a[2] * b[2]>>
RatSub(a, b) == <<a[1] * b[2] - b[1] * a[2], a[2] * b[2]>>
RatMul(a, b) == <<a[1] * b[1], a[2] * b[2]>>
RatEq(a, b) == a[1] * b[2] = b[1] * a[2]
RatLess(a, b) == a[1] * b[2] < b[1] * a[2]

\* mutant: the commission is left out of the cash flow
_calculate_cost_of_transaction_NoCommission(transaction) ==
    transaction.price * transaction.quantity

\* BacktestPosition._calculate_cost_of_transaction
_calculate_cost_of_transaction(transaction) ==
    LET result == transaction.price * transaction.quantity
    IN  result + transaction.commission

\* mutant: the closed check never fails
_check_if_open_Never == TRUE

\* BacktestPosition._check_if_open: TRUE when the assertion passes
_check_if_open == ~is_closed

\* mutant: off-by-one in the comparison, a change of 2 passes
_check_if_direction_does_not_change_Loose(transaction) ==
    LET sign_after_transaction == sign(number_of_shares + transaction.quantity)
        change == abs(sign_after_transaction - direction)
    IN  change <= 2

\* BacktestPosition._check_if_direction_does_not_change: TRUE when it passes
_check_if_direction_does_not_change(transaction) ==
    LET sign_after_transaction == sign(number_of_shares + transaction.quantity)
        change == abs(sign_after_transaction - direction)
    IN  change < 2

\* mutant: every transaction decides the direction
DirectionAfter_Every(transaction) == sign(transaction.quantity)

\* transact_transaction, lines 52-53: the first transaction decides the direction
DirectionAfter(transaction) ==
    IF transactions = <<>> THEN sign(transaction.quantity) ELSE direction

\* mutant: the transaction is put in front of the log
LogAfter_Prepend(transaction) == <<transaction>> \o transactions

\* transact_transaction, line 55: self.transactions.append(transaction)
LogAfter(transaction) == Append(transactions, transaction)

\* mutant: the quantity is added without its sign
SharesAfter_Abs(transaction) == number_of_shares + abs(transaction.quantity)

\* transact_transaction, line 56: self.number_of_shares += transaction.quantity
SharesAfter(transaction) == number_of_shares + transaction.quantity

\* mutant: closes as soon as the number of shares is not positive
ClosedAfter_NonPositive(shares) == IF shares <= 0 THEN TRUE ELSE is_closed

\* transact_transaction, lines 58-59: close when the number of shares drops to zero
ClosedAfter(shares) == IF shares = 0 THEN TRUE ELSE is_closed

\* mutant: bid and ask swapped
MarkPrice_Swapped(bid_price, ask_price) ==
    IF number_of_shares > 0 THEN ask_price
    ELSE IF number_of_shares < 0 THEN bid_price
    ELSE current_price

\* update_price, lines 71-74: bid when long, ask when short, else unchanged
MarkPrice(bid_price, ask_price) ==
    IF number_of_shares > 0 THEN bid_price
    ELSE IF number_of_shares < 0 THEN ask_price
    ELSE current_price

\* mutant: the price assertion is missing
TransactError_NoPriceCheck(transaction) ==
    IF ~_check_if_open THEN "InvalidStateError"
    ELSE IF ~_check_if_direction_does_not_change(transaction) THEN "DirectionViolationError"
    ELSE IF ~(transaction.contract = PositionContract) THEN "ContractMismatchError"
    ELSE IF ~(transaction.quantity # 0) THEN "InvalidTransactionError"
    ELSE "none"

\* mutant: the quantity and price assertions run before the direction and
\* contract checks
TransactError_ValuesFirst(transaction) ==
    IF ~_check_if_open THEN "InvalidStateError"
    ELSE IF ~(transaction.quantity # 0) THEN "InvalidTransactionError"
    ELSE IF ~(transaction.price > 0) THEN "InvalidTransactionError"
    ELSE IF ~_check_if_direction_does_not_change(transaction) THEN "DirectionViolationError"
    ELSE IF ~(transaction.contract = PositionContract) THEN "ContractMismatchError"
    ELSE "none"

\* The assertions of transact_transaction in the order the code runs them;
\* the first one that fails decides the error, "none" when all pass.
TransactError(transaction) ==
    IF ~_check_if_open THEN "InvalidStateError"
    ELSE IF ~_check_if_direction_does_not_change(transaction) THEN "DirectionViolationError"
    ELSE IF ~(transaction.contract = PositionContract) THEN "ContractMismatchError"
    ELSE IF ~(transaction.quantity # 0) THEN "InvalidTransactionError"
    ELSE IF ~(transaction.price > 0) THEN "InvalidTransactionError"
    ELSE "none"

\* ---------------------------------------------------------------- queries
RECURSIVE SumCost(_)
RECURSIVE BuildCost(_)
RECURSIVE BuildShares_All(_)
RECURSIVE BuildShares(_)
RECURSIVE BuildCost_NoCommission(_)
RECURSIVE RealizedLoop(_, _)
RECURSIVE RealizedLoop_AddsCommission(_, _)
\* the loop of cost_basis over a list of transactions
SumCost(txns) ==
    IF txns = <<>> THEN 0
    ELSE SumCost(SubSeq(txns, 1, Len(txns) - 1))
         + txns[Len(txns)].price * txns[Len(txns)].quantity
         + txns[Len(txns)].commission

\* mutant: the guard for a flat position is missing
cost_basis_NoFlatGuard == SumCost(transactions)

\* BacktestPosition.cost_basis
cost_basis == IF number_of_shares = 0 THEN 0 ELSE SumCost(transactions)

\* BacktestPosition.market_value
market_value == number_of_shares * current_price

\* mutant: the commission of a building transaction is left out of the cost
BuildCost_NoCommission(txns) ==
    IF txns = <<>> THEN 0
    ELSE LET t == txns[Len(txns)]
             rest == BuildCost_NoCommission(SubSeq(txns, 1, Len(txns) - 1))
         IN  IF sign(t.quantity) = direction
             THEN rest + (t.price * t.quantity)
             ELSE rest

\* the `cost` accumulator of avg_cost_per_share after the loop over txns
BuildCost(txns) ==
    IF txns = <<>> THEN 0
    ELSE LET t == txns[Len(txns)]
             rest == BuildCost(SubSeq(txns, 1, Len(txns) - 1))
         IN  IF sign(t.quantity) = direction
             THEN rest + (t.price * t.quantity) + t.commission
             ELSE rest

\* mutant: the shares of every transaction are counted, not only the building ones
BuildShares_All(txns) ==
    IF txns = <<>> THEN 0
    ELSE BuildShares_All(SubSeq(txns, 1, Len(txns) - 1)) + txns[Len(txns)].quantity

\* the `shares` accumulator of avg_cost_per_share after the loop over txns
BuildShares(txns) ==
    IF txns = <<>> THEN 0
    ELSE LET t == txns[Len(txns)]
             rest == BuildShares(SubSeq(txns, 1, Len(txns) - 1))
         IN  IF sign(t.quantity) = direction
             THEN rest + t.quantity
             ELSE rest

\* BacktestPosition.avg_cost_per_share, as an exact fraction
avg_cost_per_share ==
    LET cost == BuildCost(transactions)
        shares == BuildShares(transactions)
    IN  IF shares = 0 THEN RatInt(0) ELSE Rat(cost, shares)

\* mutant: the cost basis is added instead of subtracted
unrealised_pnl_Plus == market_value + cost_basis

\* BacktestPosition.unrealised_pnl
unrealised_pnl == market_value - cost_basis

\* mutant: the closing commission is added instead of subtracted
RealizedLoop_AddsCommission(txns, avg_cost_ps) ==
    IF txns = <<>> THEN RatInt(0)
    ELSE LET t == txns[Len(txns)]
             pnl == RealizedLoop_AddsCommission(SubSeq(txns, 1, Len(txns) - 1), avg_cost_ps)
         IN  IF sign(t.quantity) # direction
             THEN RatAdd(RatAdd(pnl, RatMul(RatSub(RatInt(t.price), avg_cost_ps),
                                            RatInt(-t.quantity))),
                         RatInt(t.commission))
             ELSE pnl

\* the loop of realized_pnl over txns: the value of `pnl` after it
RealizedLoop(txns, avg_cost_ps) ==
    IF txns = <<>> THEN RatInt(0)
    ELSE LET t == txns[Len(txns)]
             pnl == RealizedLoop(SubSeq(txns, 1, Len(txns) - 1), avg_cost_ps)
         IN  IF sign(t.quantity) # direction
             THEN RatSub(RatAdd(pnl, RatMul(RatSub(RatInt(t.price), avg_cost_ps),
                                            RatInt(-t.quantity))),
                         RatInt(t.commission))
             ELSE pnl

\* BacktestPosition.realized_pnl, as an exact fraction
realized_pnl == RealizedLoop(transactions, avg_cost_per_share)

\* ---------------------------------------------------------------- initial state
\* arguments recorded before any calculation call
NoArgs == [window_len |-> None, multiplier |-> 0]

\* BacktestPosition.__init__
InitPosition ==
    /\ is_closed = FALSE
    /\ transactions = <<>>
    /\ number_of_shares = 0
    /\ current_price = 0
    /\ direction = 0
    /\ lastOp = "none"
    /\ lastError = "none"
    /\ lastReturn = 0
    /\ sumReturned = 0

\* VolatilityForecast.__init__ with the given annualise and frequency
InitForecast(annualise_arg, frequency_arg) ==
    /\ ~annualise_arg \/ frequency_arg # None
    /\ annualise = annualise_arg
    /\ frequency = frequency_arg
    /\ window_len = None
    /\ forecasted_volatility = None
    /\ rolledWith = {}
    /\ volOp = "none"
    /\ volArgs = NoArgs
    /\ volError = "none"
    /\ volReturn = None

\* a position, next to a forecast constructed with the default arguments
Init == InitPosition /\ InitForecast(TRUE, Some("DAILY"))

\* a forecast constructed with any arguments the constructor accepts, next to
\* a fresh position
InitVol ==
    /\ InitPosition
    /\ \E annualise_arg \in BOOLEAN, frequency_arg \in {None, Some("DAILY")} :
          InitForecast(annualise_arg, frequency_arg)

\* ---------------------------------------------------------------- operations
\* BacktestPosition.transact_transaction
transact_transaction(transaction) ==
    LET err == TransactError(transaction) IN
    /\ lastOp' = "transact"
    /\ lastError' = err
    /\ err = "none" => Len(transactions) < MaxTxns
    /\ IF err # "none"
       THEN /\ UNCHANGED ledger
            /\ lastReturn' = 0
            /\ UNCHANGED sumReturned
       ELSE /\ direction' = DirectionAfter(transaction)
            /\ transactions' = LogAfter(transaction)
            /\ number_of_shares' = SharesAfter(transaction)
            /\ is_closed' = ClosedAfter(SharesAfter(transaction))
            /\ UNCHANGED current_price
            /\ lastReturn' = _calculate_cost_of_transaction(transaction)
            /\ sumReturned' = sumReturned + _calculate_cost_of_transaction(transaction)

\* BacktestPosition.update_price
update_price(bid_price, ask_price) ==
    /\ lastOp' = "update_price"
    /\ lastReturn' = 0
    /\ UNCHANGED sumReturned
    /\ IF ~_check_if_open
       THEN /\ lastError' = "InvalidStateError"
            /\ UNCHANGED ledger
       ELSE /\ lastError' = "none"
            /\ current_price' = MarkPrice(bid_price, ask_price)
            /\ UNCHANGED <<is_closed, transactions, number_of_shares, direction>>

Transact ==
    /\ \E transaction \in Transactions : transact_transaction(transaction)
    /\ UNCHANGED forecastVars

UpdatePrice ==
    /\ \E bid_price \in Quotes, ask_price \in Quotes : update_price(bid_price, ask_price)
    /\ UNCHANGED forecastVars

Next == Transact \/ UpdatePrice

Spec == Init /\ [][Next]_vars

\* ---------------------------------------------------------------- forecast calls
\* mutant: the "already calculated" assertion is missing
NotYetCalculated_Unchecked == TRUE

\* lines 71 and 104: assert self.forecasted_volatility is None
NotYetCalculated == forecasted_volatility = None

\* lines 78-83 and 109-114: the result, annualised when self.annualise is set
Forecast(kind, vols) == [kind |-> kind, vols |-> vols, annualised |-> annualise]

\* the bookkeeping of a call that raises: nothing is stored or returned
CallFails(error) ==
    /\ volError' = error
    /\ volReturn' = None
    /\ UNCHANGED <<forecasted_volatility, annualise, frequency, window_len>>

\* VolatilityForecast.calculate_timeseries.  rolling_window and the model fit
\* inside it are library calls: they either raise or give a series.
calculate_timeseries(window_len_arg, multiplier) ==
    /\ volOp' = "calculate_timeseries"
    /\ volArgs' = [window_len |-> window_len_arg, multiplier |-> multiplier]
    /\ IF ~NotYetCalculated
       THEN CallFails("AlreadyCalculated") /\ UNCHANGED rolledWith
       ELSE IF ~(window_len_arg # None)
       THEN CallFails("WindowLenRequired") /\ UNCHANGED rolledWith
       ELSE IF ~(multiplier >= 1)
       THEN CallFails("MultiplierTooSmall") /\ UNCHANGED rolledWith
       ELSE /\ rolledWith' = rolledWith \cup {window_len}
            /\ \/ CallFails("CalculationFailed")
               \/ \E vols \in VolSeries :
                     /\ forecasted_volatility' = Some(Forecast("series", vols))
                     /\ volReturn' = Some(Forecast("series", vols))
                     /\ volError' = "none"
                     /\ UNCHANGED <<annualise, frequency, window_len>>

\* VolatilityForecast.calculate_single_forecast.  The model fit is a library
\* call: it either raises or gives a value.
calculate_single_forecast(multiplier) ==
    /\ volOp' = "calculate_single_forecast"
    /\ volArgs' = [window_len |-> None, multiplier |-> multiplier]
    /\ UNCHANGED rolledWith
    /\ IF ~NotYetCalculated
       THEN CallFails("AlreadyCalculated")
       ELSE IF ~(multiplier >= 1)
       THEN CallFails("MultiplierTooSmall")
       ELSE \/ CallFails("CalculationFailed")
            \/ \E vol \in Vols :
                  /\ forecasted_volatility' = Some(Forecast("float", <<vol>>))
                  /\ volReturn' = Some(Forecast("float", <<vol>>))
                  /\ volError' = "none"
                  /\ UNCHANGED <<annualise, frequency, window_len>>

CalculateTimeseries ==
    /\ \E window_len_arg \in WindowArgs, multiplier \in Multipliers :
          calculate_timeseries(window_len_arg, multiplier)
    /\ UNCHANGED positionVars

CalculateSingleForecast ==
    /\ \E multiplier \in Multipliers : calculate_single_forecast(multiplier)
    /\ UNCHANGED positionVars

NextVol == CalculateTimeseries \/ CalculateSingleForecast

SpecVol == InitVol /\ [][NextVol]_vars

\* ---------------------------------------------------------------- properties
RECURSIVE SumQuantities(_)
\* sum of the quantities of a list of transactions, 0 for the empty list
SumQuantities(txns) ==
    IF txns = <<>> THEN 0 ELSE txns[1].quantity + SumQuantities(Tail(txns))

\* a transaction that would take the share count to the sign opposite to direction
Flips(t) == direction # 0 /\ sign(number_of_shares + t.quantity) = -direction

\* a transaction with a zero quantity or a non-positive price
BadQuantityOrPrice(t) == t.quantity = 0 \/ t.price <= 0

\* the call transact_transaction(t) made in the current state fails with the
\* given kind and leaves the ledger as it was (the call has one outcome: every
\* primed variable of the action is a function of the state and of t)
RejectedWith(t, kind) ==
    ENABLED (transact_transaction(t) /\ lastError' = kind /\ UNCHANGED ledger)

\* the call transact_transaction(t) made in the current state fails, with
\* whatever kind, and leaves the ledger as it was
Rejected(t) ==
    ENABLED (transact_transaction(t) /\ lastError' # "none" /\ UNCHANGED ledger)

\* C1: in every reachable state number_of_shares equals the sum of the
\* quantities of all transactions in the log (0 for an empty log).
C1_SharesAreSumOfQuantities == number_of_shares = SumQuantities(transactions)

C1_Witness ==
    /\ Len(transactions) >= 2
    /\ number_of_shares # 0
    /\ lastOp = "transact" /\ lastError # "none"

\* C2: is_closed holds exactly when number_of_shares is 0 and the log is not
\* empty; a fresh position is not closed and the first accepted transaction
\* never closes the position.
C2_ClosedIffFlatAfterTrading ==
    /\ is_closed <=> (number_of_shares = 0 /\ transactions # <<>>)
    /\ Len(transactions) <= 1 => ~is_closed

C2_Witness == is_closed /\ Len(transactions) >= 2 /\ number_of_shares = 0

\* C3: closed is terminal: from a closed position every transact and every
\* update_price call fails the "already closed" assertion and no field of the
\* ledger changes.
C3_ClosedIsTerminal ==
    [][is_closed => (lastError' = "InvalidStateError" /\ UNCHANGED ledger)]_vars

C3_Witness == is_closed /\ lastOp = "update_price" /\ lastError = "InvalidStateError"

\* C4: direction is 0 while the log is empty, equals the sign of the first
\* recorded quantity afterwards, and no call changes it once the log is
\* non-empty.
C4_DirectionState ==
    IF transactions = <<>> THEN direction = 0
    ELSE direction = sign(transactions[1].quantity) /\ direction # 0

C4_DirectionIsFirstSign ==
    /\ []C4_DirectionState
    /\ [][transactions # <<>> => direction' = direction]_vars

C4_Witness ==
    /\ Len(transactions) >= 2
    /\ sign(transactions[2].quantity) # sign(transactions[1].quantity)
    /\ direction = -1

\* C5: the sign of number_of_shares is never opposite to direction; a transact
\* call on an open position that would flip the sign fails the direction
\* assertion and changes nothing.
C5_NoDirectionFlip ==
    /\ sign(number_of_shares) \in {direction, 0}
    /\ \A t \in Transactions :
          (~is_closed /\ Flips(t)) => RejectedWith(t, "DirectionViolationError")

C5_Witness ==
    /\ lastOp = "transact" /\ lastError = "DirectionViolationError"
    /\ number_of_shares = 1 /\ direction = 1

\* C6: a transact call that fails (closed, contract mismatch, zero quantity,
\* non-positive price, direction flip) leaves every field of the ledger as it
\* was: each of those conditions makes the call fail, and no failing call
\* changes the ledger.
C6_FailingCallsAreRejected ==
    \A t \in Transactions :
        (\/ is_closed
         \/ t.contract # PositionContract
         \/ BadQuantityOrPrice(t)
         \/ Flips(t)) => Rejected(t)

C6_RejectionIsAtomic ==
    /\ []C6_FailingCallsAreRejected
    /\ [][(lastOp' = "transact" /\ lastError' # "none") => UNCHANGED ledger]_vars

C6_Witness ==
    /\ lastOp = "transact" /\ lastError = "ContractMismatchError"
    /\ transactions # <<>> /\ current_price # 0

\* C7 as claimed: on a position that is not closed, a transaction with zero
\* quantity or non-positive price always fails with InvalidTransactionError,
\* whatever its contract and its effect on the sign, and changes nothing.
C7_AsClaimed ==
    \A t \in Transactions :
        (~is_closed /\ BadQuantityOrPrice(t))
            => RejectedWith(t, "InvalidTransactionError")

\* C7 amended: on a position that is not closed, a transaction with zero
\* quantity or non-positive price always fails and changes nothing; the
\* failure is DirectionViolationError when the transaction would flip the
\* sign, else ContractMismatchError when its contract differs, and
\* InvalidTransactionError only when neither earlier check fires.
C7_BadTransactionState ==
    \A t \in Transactions :
        (~is_closed /\ BadQuantityOrPrice(t))
            => RejectedWith(t, IF Flips(t) THEN "DirectionViolationError"
                               ELSE IF t.contract # PositionContract
                                    THEN "ContractMismatchError"
                                    ELSE "InvalidTransactionError")

\* C7 amended, in every reachable state: a transaction with zero quantity or
\* non-positive price fails and changes nothing, with the kind of the first
\* check that fires (direction, then contract, then quantity and price).
C7_BadTransactionFails == []C7_BadTransactionState

C7_Witness ==
    /\ lastOp = "transact" /\ lastError = "InvalidTransactionError"
    /\ ~is_closed /\ number_of_shares # 0

\* C8: an accepted transact call returns price * quantity + commission of
\* that transaction whatever the prior state; the value is positive for a
\* buy and negative for a sell when the commission is smaller in size than
\* price * quantity.
C8_ReturnsCashFlow ==
    [][(lastOp' = "transact" /\ lastError' = "none") =>
          \A t \in Transactions :
              transact_transaction(t)
                  => /\ lastReturn' = t.price * t.quantity + t.commission
                     /\ (t.quantity > 0 /\ abs(t.commission) < t.price * t.quantity)
                            => lastReturn' > 0
                     /\ (t.quantity < 0 /\ abs(t.commission) < t.price * (-t.quantity))
                            => lastReturn' < 0]_vars

C8_Witness ==
    /\ lastOp = "transact" /\ lastError = "none"
    /\ Len(transactions) >= 2
    /\ transactions[Len(transactions)].quantity = MaxQty
    /\ transactions[Len(transactions)].price = MaxPrice
    /\ transactions[Len(transactions)].commission = MaxComm
    /\ lastReturn = MaxPrice * MaxQty + MaxComm

\* C9: update_price on a position that is not closed succeeds, sets
\* current_price to the bid when long, to the ask when short, leaves it alone
\* when flat (which then means no transaction yet), and changes nothing else.
C9_UpdatePriceMarks ==
    [][(lastOp' = "update_price" /\ ~is_closed) =>
          \A b \in Quotes, a \in Quotes :
              update_price(b, a)
              => /\ lastError' = "none"
                 /\ number_of_shares > 0 => current_price' = b
                 /\ number_of_shares < 0 => current_price' = a
                 /\ number_of_shares = 0 =>
                        (current_price' = current_price /\ transactions = <<>>)
                 /\ UNCHANGED <<is_closed, transactions, number_of_shares, direction>>]_vars

C9_Witness ==
    /\ lastOp = "update_price" /\ lastError = "none"
    /\ number_of_shares < 0 /\ current_price = MaxQuote

\* C10: cost_basis() is 0 when number_of_shares is 0 and otherwise the sum
\* of price * quantity + commission over all recorded transactions, which is
\* the sum of the values returned by the accepted transact calls.
C10_CostBasis ==
    cost_basis = IF number_of_shares = 0 THEN 0 ELSE sumReturned

C10_Witness ==
    /\ Len(transactions) >= 2
    /\ sign(transactions[2].quantity) = -direction
    /\ number_of_shares # 0
    /\ cost_basis # 0

\* ---------------------------------------------------------------- P&L properties
\* a recorded transaction that built the position / that reduced it
Builds(t) == sign(t.quantity) = direction
Reduces(t) == sign(t.quantity) = -direction

\* the last transaction of a non-empty log
LastTxn(txns) == txns[Len(txns)]

RECURSIVE SumReducing(_, _)
\* sum over the reducing transactions of txns of
\* (price - avg) * (-quantity) - commission
SumReducing(txns, avg) ==
    IF txns = <<>> THEN RatInt(0)
    ELSE LET t == Head(txns)
         IN  IF Reduces(t)
             THEN RatAdd(RatSub(RatMul(RatSub(RatInt(t.price), avg), RatInt(-t.quantity)),
                                RatInt(t.commission)),
                         SumReducing(Tail(txns), avg))
             ELSE SumReducing(Tail(txns), avg)

RECURSIVE BuildingCash(_)
\* sum of price * quantity + commission over the building transactions
BuildingCash(txns) ==
    IF txns = <<>> THEN 0
    ELSE (IF Builds(Head(txns))
          THEN Head(txns).price * Head(txns).quantity + Head(txns).commission
          ELSE 0) + BuildingCash(Tail(txns))

RECURSIVE BuildingQty(_)
\* sum of the quantities of the building transactions
BuildingQty(txns) ==
    IF txns = <<>> THEN 0
    ELSE (IF Builds(Head(txns)) THEN Head(txns).quantity ELSE 0)
         + BuildingQty(Tail(txns))

\* C11: realized_pnl() is the sum over the recorded transactions whose sign is
\* opposite to direction of (price - avg_cost_per_share()) * (-quantity)
\* - commission, with the average cost of the current state, and 0 when
\* there is no such transaction.
C11_RealizedPnl ==
    /\ RatEq(realized_pnl, SumReducing(transactions, avg_cost_per_share))
    /\ (\A i \in 1..Len(transactions) : ~Reduces(transactions[i]))
          => RatEq(realized_pnl, RatInt(0))

\* buy MaxQty @ MaxPrice with commission MaxComm, then sell 1 @ MaxPrice with
\* commission MaxComm: the position stays open and realized_pnl() is
\* (MaxPrice - avg) * 1 - MaxComm = -MaxComm * (MaxQty + 1) / MaxQty
C11_Witness ==
    /\ Len(transactions) = 2
    /\ transactions[1].quantity = MaxQty /\ transactions[1].commission = MaxComm
    /\ transactions[2].quantity = -1 /\ transactions[2].commission = MaxComm
    /\ ~is_closed /\ number_of_shares = MaxQty - 1
    /\ RatEq(realized_pnl, Rat(-MaxComm * (MaxQty + 1), MaxQty))

\* C12: avg_cost_per_share() is (sum of price * quantity + commission) /
\* (sum of quantity) over the recorded transactions whose sign equals
\* direction, 0 if there are none, and an accepted reducing or closing
\* transaction leaves it unchanged.
C12_AvgState ==
    IF \E i \in 1..Len(transactions) : Builds(transactions[i])
    THEN /\ BuildingQty(transactions) # 0
         /\ RatEq(avg_cost_per_share,
                  Rat(BuildingCash(transactions), BuildingQty(transactions)))
    ELSE avg_cost_per_share = RatInt(0)

C12_AvgCostFromBuilds ==
    /\ []C12_AvgState
    /\ [][(/\ lastOp' = "transact" /\ lastError' = "none"
           /\ transactions # <<>>
           /\ Reduces(LastTxn(transactions')))
              => RatEq(avg_cost_per_share', avg_cost_per_share)]_vars

C12_Witness ==
    /\ Len(transactions) = 3
    /\ Builds(transactions[1]) /\ Reduces(transactions[2]) /\ Builds(transactions[3])
    /\ transactions[1].commission # transactions[3].commission
    /\ lastOp = "transact" /\ lastError = "none"

\* C13 as claimed: avg_cost_per_share() is never negative, for long and short
\* positions and for commissions of either sign.
C13_AvgCostNeverNegative == ~RatLess(avg_cost_per_share, RatInt(0))

\* C14: unrealised_pnl() is market_value - cost_basis(), that is
\* number_of_shares * current_price minus (0 when flat, else the sum of the
\* cash flows of all accepted transactions), in every reachable state.
C14_UnrealisedPnl ==
    /\ market_value = number_of_shares * current_price
    /\ unrealised_pnl = number_of_shares * current_price
                        - (IF number_of_shares = 0 THEN 0 ELSE sumReturned)

\* buy MaxQty @ MaxPrice with commission MaxComm, then mark at bid 1
C14_Witness ==
    /\ Len(transactions) = 1
    /\ transactions[1].quantity = MaxQty /\ transactions[1].commission = MaxComm
    /\ lastOp = "update_price" /\ current_price = 1
    /\ unrealised_pnl = MaxQty - (MaxPrice * MaxQty + MaxComm)

\* C15: in a closed position market_value, cost_basis() and unrealised_pnl()
\* are all 0, whatever the last current_price was.
C15_ClosedValuesAreZero ==
    is_closed => (market_value = 0 /\ cost_basis = 0 /\ unrealised_pnl = 0)

C15_Witness == is_closed /\ current_price # 0 /\ sumReturned # 0

\* C16: the log is append-only: an accepted transact call extends it by that
\* one transaction at the end, and every other call leaves it as it was.
C16_LogIsAppendOnly ==
    [][IF lastOp' = "transact" /\ lastError' = "none"
       THEN /\ Len(transactions') = Len(transactions) + 1
            /\ SubSeq(transactions', 1, Len(transactions)) = transactions
            /\ \A t \in Transactions :
                  transact_transaction(t) => transactions' = transactions \o <<t>>
       ELSE transactions' = transactions]_vars

C16_Witness ==
    /\ Len(transactions) >= 2
    /\ transactions[1] # transactions[2]
    /\ lastOp = "transact" /\ lastError = "none"

\* C17 as claimed: once a reducing transaction is recorded, an accepted
\* building transaction leaves realized_pnl() unchanged, and so does any
\* update_price call.
C17_RealizedIsLockedIn ==
    [][(/\ \E i \in 1..Len(transactions) : Reduces(transactions[i])
        /\ \/ lastOp' = "update_price"
           \/ /\ lastOp' = "transact" /\ lastError' = "none"
              /\ Builds(LastTxn(transactions')))
          => RatEq(realized_pnl', realized_pnl)]_vars

\* C18 as claimed: for an open position with non-zero shares, also after
\* partial closes, unrealised_pnl() is
\* number_of_shares * (current_price - avg_cost_per_share()).
C18_UnrealisedOnOpenPortion ==
    (~is_closed /\ number_of_shares # 0)
        => RatEq(RatInt(unrealised_pnl),
                 RatMul(RatInt(number_of_shares),
                        RatSub(RatInt(current_price), avg_cost_per_share)))

\* C19: when the position is closed, realized_pnl() is minus the sum of the
\* values returned by all accepted transact calls.
C19_CashFlowConservation ==
    is_closed => RatEq(realized_pnl, RatInt(-sumReturned))

C19_Witness ==
    /\ is_closed /\ Len(transactions) = 3
    /\ sumReturned # 0
    /\ transactions[1].commission # transactions[2].commission

\* ---------------------------------------------------------------- forecast properties
\* C20: once a calculation call has completed and stored
\* forecasted_volatility, every further call of either method fails the
\* "already calculated" assertion and leaves forecasted_volatility as it is; a
\* call that fails stores nothing, and a call that completes stores the
\* value it returns.
C20_OneCalculationOnly ==
    [][/\ forecasted_volatility # None
            => (volError' = "AlreadyCalculated"
                /\ forecasted_volatility' = forecasted_volatility)
       /\ volError' # "none" => forecasted_volatility' = forecasted_volatility
       /\ volError' = "none"
            => (forecasted_volatility' # None
                /\ forecasted_volatility' = volReturn')]_vars

C20_Witness ==
    /\ forecasted_volatility # None
    /\ forecasted_volatility[1].kind = "series"
    /\ volOp = "calculate_single_forecast"
    /\ volArgs.multiplier >= 1
    /\ volError = "AlreadyCalculated"

\* C21: after a call calculate_timeseries(w) with w not None that passed its
\* assertions, the instance's window_len equals w and the rolling window
\* applied to the returns was given length w.
C21_WindowLenAssigned ==
    (/\ volOp = "calculate_timeseries"
     /\ volArgs.window_len # None
     /\ volError \in {"none", "CalculationFailed"})
        => (/\ window_len = volArgs.window_len
            /\ volArgs.window_len \in rolledWith)

====
